---- MODULE Spec2Model ----
(***************************************************************************)
(* Model of src/main.rs: the revision-diff reconstruction of a per-day     *)
(* time log from the completed-work history of work items.                 *)
(*                                                                         *)
(* f64 values are modelled as binary floating-point numbers with a         *)
(* scaled-down significand of Precision bits (round to nearest, ties to    *)
(* even); a value is the integer count of units of the smallest step.      *)
(* The exponent range is unbounded: overflow to infinity is not modelled.  *)
(*                                                                         *)
(* Init is main at the WIQL request (line 128): the .env file was read,    *)
(* the arguments parsed and the window resolved. Revisions are drawn as    *)
(* the loop reads them; SpecMerge pins them per work item instead, so that *)
(* runs over the same histories can be compared.                           *)
(***************************************************************************)
EXTENDS Integers, Sequences, FiniteSets, TLC

\* ------------------------------------------------------------- bounds
MaxItems == 2        \* work items a query result holds at most
MaxRevs == 2         \* revisions a revision response holds at most
MaxBatchRevs == 2    \* the same, where several work items are read
MaxMergeRevs == 2    \* the same, where the histories are pinned
Precision == 3       \* significand bits of the modelled f64
TicksPerDay == 2     \* instants of a DateTime<Utc> within one calendar day
DaysPerWeek == 7     \* chrono: NaiveWeek spans Monday..Sunday

\* ------------------------------------------------------------- Option<T>
None == <<>>
Some(x) == <<x>>
unwrap_or(opt, default) == IF opt = None THEN default ELSE opt[1]

\* ------------------------------------------------------------- f64
RECURSIVE Pow2(_)
Pow2(e) == IF e = 0 THEN 1 ELSE 2 * Pow2(e - 1)

RECURSIVE BitLen(_)
BitLen(n) == IF n = 0 THEN 0 ELSE 1 + BitLen(n \div 2)

\* Round a real (here: integer) result to the nearest representable value,
\* ties to the even significand.
RoundMagnitude(m) ==
    IF m < Pow2(Precision) THEN m
    ELSE LET q == Pow2(BitLen(m) - Precision)
             lo == (m \div q) * q
             rem == m - lo
         IN  IF 2 * rem < q THEN lo
             ELSE IF 2 * rem > q THEN lo + q
             ELSE IF (lo \div q) % 2 = 0 THEN lo ELSE lo + q

Round(n) == IF n < 0 THEN 0 - RoundMagnitude(0 - n) ELSE RoundMagnitude(n)

Representable(n) == Round(n) = n

FSub(a, b) == Round(a - b)
FAdd(a, b) == Round(a + b)

\* ------------------------------------------------------------- chrono
date_naive(ts) == ts \div TicksPerDay
first_day(today) == today - (today % DaysPerWeek)
last_day(today) == first_day(today) + (DaysPerWeek - 1)

\* ------------------------------------------------------------- inputs
Todays == {10}
ArgsSet ==
    { [from |-> None, to |-> None, user |-> "ann@adapt.dk"],
      [from |-> Some(9), to |-> Some(8), user |-> "ann@adapt.dk"] }

ItemIds == 1..MaxItems

Injective(q) == \A i, j \in 1..Len(q) : q[i] = q[j] => i = j
QueryResults ==
    { q \in UNION { [1..k -> ItemIds] : k \in 0..MaxItems } : Injective(q) }

Users ==
    { [display_name |-> "Ann", email |-> "ann@adapt.dk"],
      [display_name |-> "Ann", email |-> "Ann@adapt.dk"],
      [display_name |-> "Bob", email |-> "bob@adapt.dk"] }

Titles == {"Fix login"}
InputValues == {0, 2, 5, 14}

VARIABLES
    pc,                  \* position in main
    from, to, user,      \* resolved arguments
    requests,            \* HTTP requests issued so far
    query_result,        \* work_items of the WIQL answer
    wi,                  \* work items taken from query_result.into_iter()
    revisions,           \* number of revisions in the current response
    ri,                  \* revisions taken from revisions.value.into_iter()
    printed_header,
    last_completed_work,
    sums,
    stdout,
    delta_sum,           \* history: f64 sum of every diff computed for the item
    rounded,             \* history: some f64 operation on the item was inexact
    survivors,           \* history: revisions of the item that passed all filters
    known_title,         \* history: title of the latest revision carrying one
    skipped,             \* history: the revision just read carried no value
    history              \* the server's revisions per work item, where a
                         \* specification pins them; <<>> where they are drawn
                         \* as they are read

vars == <<pc, from, to, user, requests, query_result, wi, revisions, ri,
          printed_header, last_completed_work, sums, stdout,
          delta_sum, rounded, survivors, known_title, skipped, history>>

\* ------------------------------------------------------------- println!
Header(id, title) == [kind |-> "header", id |-> id, title |-> title]
Detail(date, changed_by, completed_work, diff) ==
    [kind |-> "detail", date |-> date,
     changed_by |-> <<changed_by.display_name, changed_by.email>>,
     completed_work |-> completed_work, diff |-> diff]
Totals(map) == [kind |-> "sums", sums |-> map]

\* ------------------------------------------------------------- revisions
Timestamps ==
    { (from - 1) * TicksPerDay + (TicksPerDay - 1),   \* last instant before `from`
      from * TicksPerDay,                             \* first instant of `from`
      to * TicksPerDay + (TicksPerDay - 1),           \* last instant of `to`
      (to + 1) * TicksPerDay }                        \* first instant after `to`

AllFields ==
    [ changed_date : Timestamps,
      changed_by : Users,
      completed_work : {None} \cup { Some(v) : v \in InputValues },
      title : {None} \cup { Some(s) : s \in Titles } ]

\* The revisions a batch run reads: a value or none, the target user or
\* another, the first day of the window or the day after it.
BatchFields ==
    [ changed_date : {from * TicksPerDay, (to + 1) * TicksPerDay},
      changed_by : Users,
      completed_work : {None, Some(2), Some(5)},
      title : {Some("Fix login")} ]

\* Query answers of at most one work item.
OneItemResults == { q \in QueryResults : Len(q) <= 1 }

\* The loop's own state, as one record.
Cur ==
    [ last_completed_work |-> last_completed_work,
      printed_header |-> printed_header,
      sums |-> sums,
      stdout |-> stdout ]

\* Faulty variant: the entry is overwritten instead of incremented.
Entry_Overwrite(map, date, diff) ==
    IF date \in DOMAIN map
    THEN [map EXCEPT ![date] = diff]
    ELSE map @@ (date :> diff)

\* sums.entry(date).and_modify(|sum| *sum += diff).or_insert(diff)
Entry(map, date, diff) ==
    IF date \in DOMAIN map
    THEN [map EXCEPT ![date] = FAdd(@, diff)]
    ELSE map @@ (date :> diff)

\* Faulty variant: the delta is taken from 0 instead of from the running baseline.
Diff_FromZero(completed_work, last) == FSub(completed_work, 0)

Diff(completed_work, last) == FSub(completed_work, last)

\* Faulty variant: the window excludes its bounds.
InWindow_Exclusive(date) == ~(date <= from \/ date >= to)

InWindow(date) == ~(date < from \/ date > to)

HeaderTitle(fields) == unwrap_or(fields.title, "")

\* Faulty variant: printed_header is never set.
Attribute_NoFlag(s, id, fields, date, completed_work, diff) ==
    [s EXCEPT
        !.sums = Entry(s.sums, date, diff),
        !.stdout = s.stdout
            \o (IF s.printed_header THEN <<>> ELSE <<Header(id, HeaderTitle(fields))>>)
            \o <<Detail(date, fields.changed_by, completed_work, diff)>>]

\* A revision that passed every filter: header once, total, detail line.
Attribute(s, id, fields, date, completed_work, diff) ==
    [s EXCEPT
        !.printed_header = TRUE,
        !.sums = Entry(s.sums, date, diff),
        !.stdout = s.stdout
            \o (IF s.printed_header THEN <<>> ELSE <<Header(id, HeaderTitle(fields))>>)
            \o <<Detail(date, fields.changed_by, completed_work, diff)>>]

\* Faulty variant: a revision without a value resets the baseline.
AbsentValue_ResetsBaseline(s) == [s EXCEPT !.last_completed_work = 0]

\* A revision without a completed-work value: the `if let` body is not entered.
AbsentValue(s) == s

\* Faulty variant: the filters run before the baseline is updated.
ProcessRevision_FilterFirst(s, id, fields) ==
    IF fields.completed_work = None THEN s
    ELSE LET completed_work == fields.completed_work[1]
             diff == FSub(completed_work, s.last_completed_work)
             date == date_naive(fields.changed_date)
         IN  IF diff = 0 THEN s
             ELSE IF fields.changed_by.email # user THEN s
             ELSE IF date < from \/ date > to THEN s
             ELSE [s EXCEPT
                     !.last_completed_work = completed_work,
                     !.printed_header = TRUE,
                     !.sums = Entry(s.sums, date, diff),
                     !.stdout = s.stdout
                         \o (IF s.printed_header THEN <<>>
                             ELSE <<Header(id, unwrap_or(fields.title, ""))>>)
                         \o <<Detail(date, fields.changed_by, completed_work, diff)>>]

\* The body of `for revision in revisions.value.into_iter()`.
ProcessRevision(s, id, fields) ==
    IF fields.completed_work = None THEN AbsentValue(s)
    ELSE LET completed_work == fields.completed_work[1]
             diff == Diff(completed_work, s.last_completed_work)
             s1 == [s EXCEPT !.last_completed_work = completed_work]
             date == date_naive(fields.changed_date)
         IN  IF diff = 0 THEN s1
             ELSE IF fields.changed_by.email # user THEN s1
             ELSE IF ~InWindow(date) THEN s1
             ELSE Attribute(s1, id, fields, date, completed_work, diff)

\* Faulty variant: the baseline is carried over from the previous work item.
ItemLocals_KeepBaseline(s) == [s EXCEPT !.printed_header = FALSE]

\* let mut printed_header = false; let mut last_completed_work: f64 = 0.0;
ItemLocals(s) ==
    [s EXCEPT !.printed_header = FALSE, !.last_completed_work = 0]

\* Whether the revision passes the three filters from baseline `last`.
Survives(fields, last) ==
    /\ fields.completed_work # None
    /\ FSub(fields.completed_work[1], last) # 0
    /\ fields.changed_by.email = user
    /\ date_naive(fields.changed_date) >= from
    /\ date_naive(fields.changed_date) <= to

\* ------------------------------------------------------------- main
InitMain ==
    /\ \E args \in ArgsSet, today \in Todays :
          /\ from = unwrap_or(args.from, first_day(today))
          /\ to = unwrap_or(args.to, last_day(today))
          /\ user = args.user
    /\ pc = "query"
    /\ requests = <<>>
    /\ query_result = <<>>
    /\ wi = 0
    /\ revisions = 0
    /\ ri = 0
    /\ printed_header = FALSE
    /\ last_completed_work = 0
    /\ sums = <<>>
    /\ stdout = <<>>
    /\ delta_sum = 0
    /\ rounded = FALSE
    /\ survivors = 0
    /\ known_title = None
    /\ skipped = FALSE

Init == InitMain /\ history = <<>>

Wiql == [kind |-> "wiql", from |-> from, to |-> to]
GetRevisions(id) == [kind |-> "revisions", id |-> id]

\* POST .../wiql answered with the work items.
Query(results) ==
    /\ pc = "query"
    /\ requests' = Append(requests, Wiql)
    /\ \E q \in results : query_result' = q
    /\ pc' = "items"
    /\ UNCHANGED <<from, to, user, wi, revisions, ri, printed_header,
                   last_completed_work, sums, stdout,
                   delta_sum, rounded, survivors, known_title, skipped, history>>

\* POST .../wiql fails (send or decode): `?` returns the error from main.
QueryErr ==
    /\ pc = "query"
    /\ requests' = Append(requests, Wiql)
    /\ pc' = "error"
    /\ UNCHANGED <<from, to, user, query_result, wi, revisions, ri,
                   printed_header, last_completed_work, sums, stdout,
                   delta_sum, rounded, survivors, known_title, skipped, history>>

\* The next work item: GET its revisions, answered with n of them.
Fetch(n) ==
    /\ pc = "items"
    /\ wi < Len(query_result)
    /\ wi' = wi + 1
    /\ requests' = Append(requests, GetRevisions(query_result[wi + 1]))
    /\ revisions' = n
    /\ ri' = 0
    /\ printed_header' = ItemLocals(Cur).printed_header
    /\ last_completed_work' = ItemLocals(Cur).last_completed_work
    /\ delta_sum' = 0
    /\ rounded' = FALSE
    /\ survivors' = 0
    /\ known_title' = None
    /\ skipped' = FALSE
    /\ pc' = "revisions"
    /\ UNCHANGED <<from, to, user, query_result, sums, stdout, history>>

\* GET revisions fails, or a revision lacks System.ChangedDate or
\* System.ChangedBy and the response does not decode: `?` returns from main.
FetchErr ==
    /\ pc = "items"
    /\ wi < Len(query_result)
    /\ wi' = wi + 1
    /\ requests' = Append(requests, GetRevisions(query_result[wi + 1]))
    /\ pc' = "error"
    /\ UNCHANGED <<from, to, user, query_result, revisions, ri, printed_header,
                   last_completed_work, sums, stdout,
                   delta_sum, rounded, survivors, known_title, skipped, history>>

\* One iteration of the revision loop.
Iterate(fields) ==
    /\ pc = "revisions"
    /\ ri < revisions
    /\ ri' = ri + 1
    /\ LET s == ProcessRevision(Cur, query_result[wi], fields)
       IN  /\ last_completed_work' = s.last_completed_work
           /\ printed_header' = s.printed_header
           /\ sums' = s.sums
           /\ stdout' = s.stdout
    /\ IF fields.completed_work = None
       THEN UNCHANGED <<delta_sum, rounded>>
       ELSE LET v == fields.completed_work[1]
                d == Diff(v, last_completed_work)
            IN  /\ delta_sum' = FAdd(delta_sum, d)
                /\ rounded' = (rounded \/ ~Representable(v - last_completed_work)
                                       \/ ~Representable(delta_sum + d))
    /\ survivors' = IF Survives(fields, last_completed_work)
                    THEN survivors + 1 ELSE survivors
    /\ known_title' = IF fields.title = None THEN known_title ELSE fields.title
    /\ skipped' = (fields.completed_work = None)
    /\ UNCHANGED <<pc, from, to, user, requests, query_result, wi, revisions,
                   history>>

\* The revision iterator is exhausted: on to the next work item.
EndOfRevisions ==
    /\ pc = "revisions"
    /\ ri = revisions
    /\ pc' = "items"
    /\ UNCHANGED <<from, to, user, requests, query_result, wi, revisions, ri,
                   printed_header, last_completed_work, sums, stdout,
                   delta_sum, rounded, survivors, known_title, skipped, history>>

\* The work-item iterator is exhausted: println!("{:#?}", sums); Ok(())
PrintSums ==
    /\ pc = "items"
    /\ wi = Len(query_result)
    /\ stdout' = Append(stdout, Totals(sums))
    /\ pc' = "done"
    /\ UNCHANGED <<from, to, user, requests, query_result, wi, revisions, ri,
                   printed_header, last_completed_work, sums,
                   delta_sum, rounded, survivors, known_title, skipped, history>>

\* ---- a batch of work items, revisions drawn as they are read
QueryOk == Query(QueryResults)
FetchOk == \E n \in 0..MaxBatchRevs : Fetch(n)
NextRevision == \E fields \in BatchFields : Iterate(fields)

Next ==
    \/ QueryOk
    \/ QueryErr
    \/ FetchOk
    \/ FetchErr
    \/ NextRevision
    \/ EndOfRevisions
    \/ PrintSums

Spec == Init /\ [][Next]_vars

\* ---- one work item, every kind of revision
QueryOne == Query(OneItemResults)
FetchRevs == \E n \in 0..MaxRevs : Fetch(n)
AnyRevision == \E fields \in AllFields : Iterate(fields)

NextItem ==
    \/ QueryOne
    \/ QueryErr
    \/ FetchRevs
    \/ FetchErr
    \/ AnyRevision
    \/ EndOfRevisions
    \/ PrintSums

SpecItem == Init /\ [][NextItem]_vars

\* ---- work items whose revision histories the server holds fixed
MergeFields ==
    { [ changed_date |-> from * TicksPerDay,
        changed_by |-> [display_name |-> "Ann", email |-> "ann@adapt.dk"],
        completed_work |-> Some(v),
        title |-> Some("Fix login") ] : v \in {1, 8} }

Histories == UNION { [1..k -> MergeFields] : k \in 0..MaxMergeRevs }

\* The query answers with all the work items, in some order; the window is
\* a valid one.
QueryAll == Query({ q \in QueryResults : Len(q) = MaxItems })

InitMerge == InitMain /\ from <= to /\ history \in [ItemIds -> Histories]

FetchPinned ==
    /\ pc = "items"
    /\ wi < Len(query_result)
    /\ Fetch(Len(history[query_result[wi + 1]]))

ReadPinned ==
    /\ pc = "revisions"
    /\ ri < revisions
    /\ Iterate(history[query_result[wi]][ri + 1])

NextMerge ==
    \/ QueryAll
    \/ QueryErr
    \/ FetchPinned
    \/ FetchErr
    \/ ReadPinned
    \/ EndOfRevisions
    \/ PrintSums

SpecMerge == InitMerge /\ [][NextMerge]_vars

\* main's loops as a fold over pinned histories, taken in the given order.
\* `inexact` records whether some f64 operation of the run rounded.
Inexact(s, fields) ==
    /\ fields.completed_work # None
    /\ LET v == fields.completed_work[1]
           date == date_naive(fields.changed_date)
       IN  \/ ~Representable(v - s.last_completed_work)
           \/ /\ Survives(fields, s.last_completed_work)
              /\ date \in DOMAIN s.sums
              /\ ~Representable(s.sums[date] + FSub(v, s.last_completed_work))

RECURSIVE ProcessRevisions(_, _, _, _)
ProcessRevisions(s, id, revs, n) ==
    IF n = 0 THEN s
    ELSE LET before == ProcessRevisions(s, id, revs, n - 1)
         IN  [ProcessRevision(before, id, revs[n]) EXCEPT
                 !.inexact = before.inexact \/ Inexact(before, revs[n])]

RECURSIVE ProcessItems(_, _)
ProcessItems(order, n) ==
    IF n = 0
    THEN [last_completed_work |-> 0, printed_header |-> FALSE,
          sums |-> <<>>, stdout |-> <<>>, inexact |-> FALSE]
    ELSE LET id == order[n]
         IN  ProcessRevisions(ItemLocals(ProcessItems(order, n - 1)),
                              id, history[id], Len(history[id]))

Main(order) == ProcessItems(order, Len(order))

OrdersOf(q) ==
    { p \in [1..Len(q) -> {q[i] : i \in 1..Len(q)}] : Injective(p) }

\* ------------------------------------------------------------- stdout
Positions(kind) == { i \in 1..Len(stdout) : stdout[i].kind = kind }
HeadersOf(id) == { i \in Positions("header") : stdout[i].id = id }

\* The per-date f64 sums of the deltas of the first n records, in the order
\* the detail lines were printed.
RECURSIVE RecordedTotals(_, _)
RecordedTotals(out, n) ==
    IF n = 0 THEN <<>>
    ELSE LET m == RecordedTotals(out, n - 1)
             r == out[n]
         IN  IF r.kind # "detail" THEN m
             ELSE IF r.date \in DOMAIN m
                  THEN [m EXCEPT ![r.date] = Round(@ + r.diff)]
                  ELSE m @@ (r.date :> r.diff)

\* ------------------------------------------------------------- claims

\* C1 (SpecItem): baseline before filter. Whenever the loop reads a revision
\* carrying a completed-work value, the running baseline afterwards equals
\* that value, whether the revision is attributed or discarded (zero delta,
\* other author, date outside the window); and a detail line printed for it
\* shows the value minus the baseline as it stood before the revision.
C1_BaselineBeforeFilter ==
    [][\A fields \in AllFields :
          (fields.completed_work # None /\ Iterate(fields)) =>
              /\ last_completed_work' = fields.completed_work[1]
              /\ Len(stdout') > Len(stdout) =>
                    stdout'[Len(stdout')].diff =
                        Round(fields.completed_work[1] - last_completed_work)
      ]_vars

\* Scenario B: values 2 and then 5 were read, only the 5 was attributed, and
\* its detail line shows the delta 3.
C1_Witness ==
    /\ pc = "revisions"
    /\ Cardinality(Positions("detail")) = 1
    /\ stdout[Len(stdout)].kind = "detail"
    /\ stdout[Len(stdout)].completed_work = 5
    /\ stdout[Len(stdout)].diff = 3
    /\ last_completed_work = 5
    /\ delta_sum = 5

\* C2 as stated (SpecItem): the sum of all deltas computed for a work item
\* equals the value of the last value-carrying revision, for every sequence.
C2_Telescoping ==
    pc = "revisions" => delta_sum = last_completed_work

\* C2 amended (SpecItem): the sum of all deltas computed for a work item
\* equals the value of the last value-carrying revision (0 when there is
\* none) as long as no f64 subtraction or addition on the way was inexact.
C2_TelescopingExact ==
    (pc = "revisions" /\ ~rounded) => delta_sum = last_completed_work

\* A decrease of the value (negative delta) was attributed and the sum of the
\* deltas is the last value.
C2_Witness ==
    /\ pc = "revisions"
    /\ ~rounded
    /\ ri >= 2
    /\ stdout # <<>>
    /\ stdout[Len(stdout)].kind = "detail"
    /\ stdout[Len(stdout)].diff < 0
    /\ last_completed_work = 2
    /\ delta_sum = 2

\* C3 (SpecItem): reading a revision without a completed-work value leaves
\* the baseline, the header flag, the daily totals and the output unchanged.
C3_AbsentValueNoEffect ==
    [][\A fields \in AllFields :
          (fields.completed_work = None /\ Iterate(fields)) =>
              UNCHANGED <<last_completed_work, printed_header, sums, stdout>>
      ]_vars

\* A value-less revision was just read after a revision had been attributed.
C3_Witness ==
    /\ pc = "revisions"
    /\ skipped
    /\ printed_header
    /\ last_completed_work = 5
    /\ DOMAIN sums # {}

\* C4 (SpecItem): the window is inclusive at both bounds. A revision of the
\* target user with a non-zero delta is attributed (one detail line with its
\* date, its delta entered in the total of that date) exactly when
\* from <= date <= to; otherwise nothing is printed or totalled, and the
\* baseline is updated either way.
C4_InclusiveWindow ==
    [][\A fields \in AllFields :
          ( /\ fields.completed_work # None
            /\ fields.completed_work[1] # last_completed_work
            /\ fields.changed_by.email = user
            /\ Iterate(fields) ) =>
              LET date == fields.changed_date \div TicksPerDay
              IN  /\ last_completed_work' = fields.completed_work[1]
                  /\ IF from <= date /\ date <= to
                     THEN /\ Len(stdout') > Len(stdout)
                          /\ stdout'[Len(stdout')].kind = "detail"
                          /\ stdout'[Len(stdout')].date = date
                          /\ date \in DOMAIN sums'
                          /\ sums'[date] =
                                IF date \in DOMAIN sums
                                THEN Round(sums[date] + stdout'[Len(stdout')].diff)
                                ELSE stdout'[Len(stdout')].diff
                          /\ stdout'[Len(stdout')].diff =
                                Round(fields.completed_work[1] - last_completed_work)
                     ELSE /\ stdout' = stdout
                          /\ sums' = sums
      ]_vars

\* A revision dated exactly on `from` and one dated exactly on `to` were
\* attributed.
C4_Witness ==
    /\ from < to
    /\ pc = "revisions"
    /\ ri = 2
    /\ DOMAIN sums = {from, to}
    /\ Cardinality(Positions("detail")) = 2

C6_ItemFailureDoesNotAbort ==
    /\ pc = "error" => wi = 0
    /\ (pc \in {"done", "error"} /\ wi > 0) =>
           stdout # <<>> /\ stdout[Len(stdout)].kind = "sums"

\* C7 as stated (Spec): with `to` before `from` no request is issued and the
\* run does not get past the query.
C7_InvalidWindowRejected ==
    to < from => (requests = <<>> /\ pc \in {"query", "error"})

\* C8 (Spec): header sequencing. No work item has two headers; a header is
\* directly followed by a detail line and a detail line directly follows a
\* header or another detail line; the work item being read has its header
\* exactly when one of its revisions survived, printed directly before the
\* detail line of the first survivor with all its detail lines after it; work
\* items not read yet have none.
C8_HeaderSequencing ==
    /\ \A id \in ItemIds : Cardinality(HeadersOf(id)) <= 1
    /\ \A i \in Positions("header") :
          i < Len(stdout) /\ stdout[i + 1].kind = "detail"
    /\ \A i \in Positions("detail") :
          i > 1 /\ stdout[i - 1].kind \in {"header", "detail"}
    /\ \A k \in (wi + 1)..Len(query_result) : HeadersOf(query_result[k]) = {}
    /\ pc = "revisions" =>
          LET id == query_result[wi]
              n == Len(stdout)
          IN  /\ printed_header <=> survivors > 0
              /\ survivors = 0 => HeadersOf(id) = {}
              /\ survivors > 0 =>
                    /\ HeadersOf(id) = {n - survivors}
                    /\ \A i \in (n - survivors + 1)..n : stdout[i].kind = "detail"

\* Two work items were read to the end: one printed its header once and two
\* detail lines, the other had no surviving revision and printed nothing.
C8_Witness ==
    /\ pc = "done"
    /\ Len(query_result) = 2
    /\ Cardinality(Positions("header")) = 1
    /\ Cardinality(Positions("detail")) = 2

\* C9 as stated (SpecItem): the header printed for a work item shows the
\* most recent title known at that point, the surviving revision's own title
\* or else the one of an earlier revision.
C9_HeaderShowsKnownTitle ==
    [][(printed_header' /\ ~printed_header) =>
           /\ stdout'[Len(stdout) + 1].kind = "header"
           /\ stdout'[Len(stdout) + 1].title = unwrap_or(known_title', "")
      ]_vars

\* C10 (Spec): the daily totals are the per-date f64 sums of the deltas of
\* the detail lines printed so far, in printing order; a date has an entry
\* exactly when a detail line with that date was printed; every such date
\* lies in [from, to]; the totals printed at the end are these totals.
C10_TotalsMatchOutput ==
    /\ sums = RecordedTotals(stdout, Len(stdout))
    /\ DOMAIN sums = { stdout[i].date : i \in Positions("detail") }
    /\ \A d \in DOMAIN sums : from <= d /\ d <= to
    /\ pc = "done" => stdout[Len(stdout)] = [kind |-> "sums", sums |-> sums]

\* Two work items contributed to the same date and their corrections cancel:
\* the date keeps an entry holding 0.
C10_Witness ==
    /\ pc = "done"
    /\ Cardinality(Positions("header")) = 2
    /\ \E d \in DOMAIN sums : sums[d] = 0

====
